---------------------------- MODULE Spec2Model ----------------------------
(***************************************************************************)
(* Tic-tac-toe game tracker (src/tic_tac_toe_frontend/src/App.js).         *)
(*                                                                         *)
(* Two specifications share this module:                                   *)
(*   SpecFn  the two pure functions, calculateWinner and computeAIMove,    *)
(*           applied to every 9-cell board over {null, X, O};              *)
(*   Spec    the App component: its React state, its two effects, the      *)
(*           pending timers and the user's clicks.                         *)
(*                                                                         *)
(* A handler, the re-render it causes and the effects of that render are   *)
(* one atomic step: React flushes the render and the pending effects of a  *)
(* click before it dispatches the next event, and a handler of the old     *)
(* render that runs before the flush is stopped by its own guards.         *)
(* Timers are untimed: a pending timer may fire at any later step.         *)
(***************************************************************************)
EXTENDS Integers, Sequences, FiniteSets

\* ------------------------------------------------------------ bounds

\* Math.random() is a number in [0, 1); the model draws it as rnd / RandRes
\* with rnd in 0 .. RandRes - 1.
RandRes == 4

\* The user completes at most MaxRounds rounds between two Reset Scores:
\* a square click is modelled only while scored + pending rounds < MaxRounds.
MaxRounds == 2

\* ------------------------------------------------------------ constants

\* JavaScript's null where a cell or a winner is expected.
null == "null"

\* JavaScript's null where a cell index is expected (computeAIMove's "no
\* move available"); an integer that is no index.
NoMove == -1

Mark == {"X", "O"}
Cell == Mark \cup {null}

\* Array(9): the cell indices 0 .. 8.
BoardSize == 9
Index == 0 .. (BoardSize - 1)
BoardT == [Index -> Cell]

\* A value's truthiness; over Cell only null is falsy.
Truthy(v) == v # null

initialBoard == [i \in Index |-> null]

LINES ==
  << <<0, 1, 2>>, <<3, 4, 5>>, <<6, 7, 8>>,
     <<0, 3, 6>>, <<1, 4, 7>>, <<2, 5, 8>>,
     <<0, 4, 8>>, <<2, 4, 6>> >>

\* ------------------------------------------------------------ calculateWinner

\* The test of one line in the loop of calculateWinner.
lineMatches(board, l) ==
  /\ Truthy(board[l[1]])
  /\ board[l[1]] = board[l[2]]
  /\ board[l[2]] = board[l[3]]

\* A plausible slip: the third cell of the line is not compared.
calculateWinnerTwoCells(board) ==
  LET hits == {k \in 1 .. Len(LINES) :
                 /\ Truthy(board[LINES[k][1]])
                 /\ board[LINES[k][1]] = board[LINES[k][2]]}
  IN  IF hits # {}
        THEN LET k == CHOOSE h \in hits : \A g \in hits : h <= g
             IN  [winner |-> board[LINES[k][1]], line |-> LINES[k]]
        ELSE IF \A i \in Index : Truthy(board[i])
               THEN [winner |-> "draw", line |-> << >>]
               ELSE [winner |-> null, line |-> << >>]

\* A plausible slip: the three columns are missing from the lines inspected.
calculateWinnerNoColumns(board) ==
  LET hits == {k \in {1, 2, 3, 7, 8} : lineMatches(board, LINES[k])}
  IN  IF hits # {}
        THEN LET k == CHOOSE h \in hits : \A g \in hits : h <= g
             IN  [winner |-> board[LINES[k][1]], line |-> LINES[k]]
        ELSE IF \A i \in Index : Truthy(board[i])
               THEN [winner |-> "draw", line |-> << >>]
               ELSE [winner |-> null, line |-> << >>]

\* A plausible slip: a board with an empty cell and no line is called a draw
\* (some(Boolean) for every(Boolean)).
calculateWinnerSomeFilled(board) ==
  LET hits == {k \in 1 .. Len(LINES) : lineMatches(board, LINES[k])}
  IN  IF hits # {}
        THEN LET k == CHOOSE h \in hits : \A g \in hits : h <= g
             IN  [winner |-> board[LINES[k][1]], line |-> LINES[k]]
        ELSE IF \E i \in Index : Truthy(board[i])
               THEN [winner |-> "draw", line |-> << >>]
               ELSE [winner |-> null, line |-> << >>]

\* A plausible slip: the loop does not return at the first match, the last
\* matching line is reported.
calculateWinnerLastMatch(board) ==
  LET hits == {k \in 1 .. Len(LINES) : lineMatches(board, LINES[k])}
  IN  IF hits # {}
        THEN LET k == CHOOSE h \in hits : \A g \in hits : h >= g
             IN  [winner |-> board[LINES[k][1]], line |-> LINES[k]]
        ELSE IF \A i \in Index : Truthy(board[i])
               THEN [winner |-> "draw", line |-> << >>]
               ELSE [winner |-> null, line |-> << >>]

\* The first line, in the order of LINES, whose three cells hold one same
\* mark; else draw on a full board; else no winner.
calculateWinner(board) ==
  LET hits == {k \in 1 .. Len(LINES) : lineMatches(board, LINES[k])}
  IN  IF hits # {}
        THEN LET k == CHOOSE h \in hits : \A g \in hits : h <= g
             IN  [winner |-> board[LINES[k][1]], line |-> LINES[k]]
        ELSE IF \A i \in Index : Truthy(board[i])
               THEN [winner |-> "draw", line |-> << >>]
               ELSE [winner |-> null, line |-> << >>]

\* ------------------------------------------------------------ computeAIMove

\* board.map((v, i) => (v ? null : i)).filter(v => v !== null):
\* the indices of the falsy cells, ascending.
availableMoves(board) ==
  SelectSeq([k \in 1 .. BoardSize |-> k - 1], LAMBDA i : ~Truthy(board[i]))

\* [...board] with copy[move] = mark.
place(board, move, mark) == [board EXCEPT ![move] = mark]

\* A plausible slip: the last winning move is kept instead of the first.
firstWinningMoveLast(board, moves, mark) ==
  LET wins == SelectSeq(moves,
                LAMBDA m : calculateWinner(place(board, m, mark)).winner = mark)
  IN  IF Len(wins) > 0 THEN wins[Len(wins)] ELSE NoMove

\* The loop "for (const move of moves)" of the win and of the block step:
\* the first move, in the order of moves, after which mark has won; NoMove
\* when the loop ends without returning.
firstWinningMove(board, moves, mark) ==
  LET wins == SelectSeq(moves,
                LAMBDA m : calculateWinner(place(board, m, mark)).winner = mark)
  IN  IF Len(wins) > 0 THEN Head(wins) ELSE NoMove

\* A plausible slip: the filter is dropped, every corner is a candidate.
cornersUnfiltered(board) == <<0, 2, 6, 8>>

\* [0, 2, 6, 8].filter(i => board[i] === null)
corners(board) == SelectSeq(<<0, 2, 6, 8>>, LAMBDA i : board[i] = null)

\* [1, 3, 5, 7].filter(i => board[i] === null)
sides(board) == SelectSeq(<<1, 3, 5, 7>>, LAMBDA i : board[i] = null)

\* A plausible slip: Math.random() is left out and the first candidate taken.
randomPickFirst(cands, rnd) == cands[1]

\* cands[Math.floor(Math.random() * cands.length)], Math.random() = rnd / RandRes.
randomPick(cands, rnd) == cands[((rnd * Len(cands)) \div RandRes) + 1]

\* The rule that returns and the value returned.
aiDecision(board, ai, human, rnd) ==
  LET moves == availableMoves(board)
      win   == firstWinningMove(board, moves, ai)
      block == firstWinningMove(board, moves, human)
  IN  IF win # NoMove THEN [rule |-> "win", move |-> win]
      ELSE IF block # NoMove THEN [rule |-> "block", move |-> block]
      ELSE IF board[4] = null THEN [rule |-> "center", move |-> 4]
      ELSE IF Len(corners(board)) > 0
        THEN [rule |-> "corner", move |-> randomPick(corners(board), rnd)]
      ELSE IF Len(sides(board)) > 0
        THEN [rule |-> "side", move |-> randomPick(sides(board), rnd)]
      ELSE IF Len(moves) > 0 THEN [rule |-> "fallback", move |-> moves[1]]
      ELSE [rule |-> "none", move |-> NoMove]

\* A plausible slip: the block step runs before the win step.
computeAIMoveBlockFirst(board, ai, human, rnd) ==
  LET moves == availableMoves(board)
      win   == firstWinningMove(board, moves, ai)
      block == firstWinningMove(board, moves, human)
  IN  IF block # NoMove THEN block
      ELSE IF win # NoMove THEN win
      ELSE aiDecision(board, ai, human, rnd).move

\* A plausible slip: the block step is missing.
computeAIMoveNoBlock(board, ai, human, rnd) ==
  LET moves == availableMoves(board)
      win   == firstWinningMove(board, moves, ai)
  IN  IF win # NoMove THEN win
      ELSE IF board[4] = null THEN 4
      ELSE IF Len(corners(board)) > 0 THEN randomPick(corners(board), rnd)
      ELSE IF Len(sides(board)) > 0 THEN randomPick(sides(board), rnd)
      ELSE IF Len(moves) > 0 THEN moves[1]
      ELSE NoMove

\* A plausible slip: the corners are tried before the center.
computeAIMoveCornerFirst(board, ai, human, rnd) ==
  LET d == aiDecision(board, ai, human, rnd)
  IN  IF d.rule = "center" /\ Len(corners(board)) > 0
        THEN randomPick(corners(board), rnd)
        ELSE d.move

\* A plausible slip: the sides are tried before the corners.
computeAIMoveSideFirst(board, ai, human, rnd) ==
  LET d == aiDecision(board, ai, human, rnd)
  IN  IF d.rule = "corner" /\ Len(sides(board)) > 0
        THEN randomPick(sides(board), rnd)
        ELSE d.move

\* A plausible slip: the center test is inverted away, 4 is returned whether
\* or not it is empty.
computeAIMoveAlwaysCenter(board, ai, human, rnd) ==
  LET d == aiDecision(board, ai, human, rnd)
  IN  IF d.rule \in {"corner", "side"} THEN 4 ELSE d.move

computeAIMove(board, ai, human, rnd) == aiDecision(board, ai, human, rnd).move

\* ------------------------------------------------------------ state

VARIABLES
  board,        \* useState(initialBoard)
  xIsNext,      \* useState(true)
  mode,         \* useState('pvc')
  scores,       \* useState({ x: 0, o: 0, draws: 0 })
  aiThinking,   \* useState(false)
  aiTimer,      \* the pending 450 ms timer of the AI effect and the board
                \* its callback closes over; NoTimer when none is pending
  scoreTimers,  \* the pending 150 ms timers of the scoring effect, oldest
                \* first, each the winner its callback closes over
  arg,          \* SpecFn: the arguments the pure functions are applied to
  ret           \* SpecFn: the last call and what it returned

vars == <<board, xIsNext, mode, scores, aiThinking, aiTimer, scoreTimers,
          arg, ret>>

appVars == <<board, xIsNext, mode, scores, aiThinking, aiTimer, scoreTimers>>
fnVars  == <<arg, ret>>

NoTimer == [pending |-> FALSE]
NoCall  == [op |-> "none"]

Rand == 0 .. (RandRes - 1)

InitApp ==
  /\ board = initialBoard
  /\ xIsNext = TRUE
  /\ mode = "pvc"
  /\ scores = [x |-> 0, o |-> 0, draws |-> 0]
  /\ aiThinking = FALSE
  /\ aiTimer = NoTimer
  /\ scoreTimers = << >>

\* ------------------------------------------------------------ the effects

\* A plausible slip: a draw starts no scoring timer (the early return also
\* taken for winner === 'draw').
scoringEffectSkipsDraw(nb, timers) ==
  LET winner == calculateWinner(nb).winner
  IN  IF ~Truthy(winner) \/ winner = "draw" THEN timers ELSE Append(timers, winner)

\* The scoring effect (deps [board]): a board with a winner or a draw starts
\* a 150 ms timer whose callback closes over that winner; no cleanup.
scoringEffect(nb, timers) ==
  LET winner == calculateWinner(nb).winner
  IN  IF ~Truthy(winner) THEN timers ELSE Append(timers, winner)

\* The AI effect's early return, negated: the effect starts its timer.
aiEffectStarts(nb, nm, nx) ==
  ~(nm # "pvc" \/ Truthy(calculateWinner(nb).winner) \/ nx)

\* A plausible slip: the AI effect returns no cleanup, so a pending timer
\* stays pending when the effect does not start a new one.
CommitNoCleanup(nb, nx, nm, nsc, na, boardSet) ==
  /\ board' = nb
  /\ xIsNext' = nx
  /\ mode' = nm
  /\ scores' = nsc
  /\ scoreTimers' = IF boardSet THEN scoringEffect(nb, scoreTimers) ELSE scoreTimers
  /\ IF aiEffectStarts(nb, nm, nx)
       THEN /\ aiThinking' = TRUE
            /\ aiTimer' = [pending |-> TRUE, board |-> nb]
       ELSE /\ aiThinking' = na
            /\ aiTimer' = aiTimer

\* The render that follows a handler's state updates, with its effects.
\* nb, nx, nm, nsc, na: the state the handler's setters leave; boardSet: the
\* handler called setBoard, which always stores a new array.  The scoring
\* effect re-runs when the board is a new array; the AI effect re-runs when
\* board, mode or xIsNext changed: the cleanup of its last run clears that
\* run's timer, then its body either returns at once or sets aiThinking and
\* starts a timer that closes over the rendered board.
Commit(nb, nx, nm, nsc, na, boardSet) ==
  /\ board' = nb
  /\ xIsNext' = nx
  /\ mode' = nm
  /\ scores' = nsc
  /\ scoreTimers' = IF boardSet THEN scoringEffect(nb, scoreTimers) ELSE scoreTimers
  /\ IF boardSet \/ nm # mode \/ nx # xIsNext
       THEN IF aiEffectStarts(nb, nm, nx)
              THEN /\ aiThinking' = TRUE
                   /\ aiTimer' = [pending |-> TRUE, board |-> nb]
              ELSE /\ aiThinking' = na
                   /\ aiTimer' = NoTimer
       ELSE /\ aiThinking' = na
            /\ aiTimer' = aiTimer

\* ------------------------------------------------------------ the handlers

\* The disabled attribute of square i: Board's disabled prop or a held value.
\* A disabled button receives no click.
SquareDisabled(i) ==
  \/ Truthy(calculateWinner(board).winner)
  \/ (mode = "pvc" /\ ~xIsNext)
  \/ aiThinking
  \/ Truthy(board[i])

\* The rounds scored or waiting to be scored since the last Reset Scores.
RoundsCounted == scores.x + scores.o + scores.draws + Len(scoreTimers)

\* A plausible slip: the turn is not guarded: the board is not disabled while
\* the computer is to move and the handler does not test aiThinking.
handleSquareClickIgnoresTurn(i) ==
  /\ RoundsCounted < MaxRounds
  /\ ~(\/ Truthy(calculateWinner(board).winner)
        \/ Truthy(board[i]))
  /\ Commit(place(board, i, IF xIsNext THEN "X" ELSE "O"),
            ~xIsNext, mode, scores, aiThinking, TRUE)
  /\ UNCHANGED fnVars

\* A click on square i.
handleSquareClick(i) ==
  /\ RoundsCounted < MaxRounds
  /\ ~SquareDisabled(i)
  /\ ~(\/ Truthy(calculateWinner(board).winner)
        \/ Truthy(board[i])
        \/ (mode = "pvc" /\ aiThinking))
  /\ Commit(place(board, i, IF xIsNext THEN "X" ELSE "O"),
            ~xIsNext, mode, scores, aiThinking, TRUE)
  /\ UNCHANGED fnVars

\* A plausible slip: the callback does not give the turn back
\* (setXIsNext(true) is missing).
AITimerFireKeepsTurn ==
  /\ aiTimer.pending
  /\ \E rnd \in Rand :
       LET move == computeAIMove(aiTimer.board, "O", "X", rnd)
       IN  IF move # NoMove
             THEN Commit(place(board, move, "O"), xIsNext, mode, scores, FALSE, TRUE)
             ELSE /\ aiThinking' = FALSE
                  /\ aiTimer' = NoTimer
                  /\ UNCHANGED <<board, xIsNext, mode, scores, scoreTimers>>
  /\ UNCHANGED fnVars

\* A plausible slip: the callback leaves aiThinking set
\* (setAiThinking(false) is missing).
AITimerFireStaysThinking ==
  /\ aiTimer.pending
  /\ \E rnd \in Rand :
       LET move == computeAIMove(aiTimer.board, "O", "X", rnd)
       IN  IF move # NoMove
             THEN Commit(place(board, move, "O"), TRUE, mode, scores, aiThinking, TRUE)
             ELSE /\ aiTimer' = NoTimer
                  /\ UNCHANGED <<board, xIsNext, mode, scores, scoreTimers, aiThinking>>
  /\ UNCHANGED fnVars

\* The callback of the AI effect's timer.
AITimerFire ==
  /\ aiTimer.pending
  /\ \E rnd \in Rand :
       \E move \in {computeAIMove(aiTimer.board, "O", "X", rnd)} :
           IF move # NoMove
             THEN Commit(place(board, move, "O"), TRUE, mode, scores, FALSE, TRUE)
             ELSE /\ aiThinking' = FALSE
                  /\ aiTimer' = NoTimer
                  /\ UNCHANGED <<board, xIsNext, mode, scores, scoreTimers>>
  /\ UNCHANGED fnVars

\* The callback of the oldest scoring timer.
ScoreTimerFire ==
  /\ Len(scoreTimers) > 0
  /\ LET winner == Head(scoreTimers)
     IN  scores' = IF winner = "X" THEN [scores EXCEPT !.x = @ + 1]
                   ELSE IF winner = "O" THEN [scores EXCEPT !.o = @ + 1]
                   ELSE [scores EXCEPT !.draws = @ + 1]
  /\ scoreTimers' = Tail(scoreTimers)
  /\ UNCHANGED <<board, xIsNext, mode, aiThinking, aiTimer>>
  /\ UNCHANGED fnVars

\* New Round: newMatch calls resetBoard.
newMatch ==
  /\ Commit(initialBoard, TRUE, mode, scores, FALSE, TRUE)
  /\ UNCHANGED fnVars

\* Reset Scores.
resetScores ==
  /\ Commit(initialBoard, TRUE, mode, [x |-> 0, o |-> 0, draws |-> 0], FALSE, TRUE)
  /\ UNCHANGED fnVars

\* A click on a pill of the mode switch, the active one included.
ModeSwitchChange(m) ==
  /\ Commit(initialBoard, TRUE, m, scores, FALSE, TRUE)
  /\ UNCHANGED fnVars

ClickSquare == \E i \in Index : handleSquareClick(i)
ClickMode   == \E m \in {"pvc", "pvp"} : ModeSwitchChange(m)

\* ------------------------------------------------------------ the pure calls

\* One call per drawn input: calculateWinner(arg.board).
CallCalculateWinner ==
  /\ ret.op = "none"
  /\ ret' = [op |-> "calculateWinner", val |-> calculateWinner(arg.board)]
  /\ UNCHANGED <<arg, appVars>>

\* One call per drawn input: computeAIMove(arg.board, arg.ai, arg.human),
\* for each outcome rnd of Math.random().
CallComputeAIMove ==
  /\ ret.op = "none"
  /\ \E rnd \in Rand :
       ret' = [op |-> "computeAIMove", rnd |-> rnd,
               val |-> computeAIMove(arg.board, arg.ai, arg.human, rnd)]
  /\ UNCHANGED <<arg, appVars>>

\* ------------------------------------------------------------ specifications

Init ==
  /\ InitApp
  /\ arg = [board |-> initialBoard, ai |-> "O", human |-> "X"]
  /\ ret = NoCall

Next ==
  \/ ClickSquare
  \/ AITimerFire
  \/ ScoreTimerFire
  \/ newMatch
  \/ resetScores
  \/ ClickMode

Spec == Init /\ [][Next]_vars

\* A timer that is pending and not cleared fires: the AI effect's callback is
\* not postponed forever.
FairSpec == Spec /\ WF_vars(AITimerFire)

InitFn ==
  /\ InitApp
  /\ arg \in [board : BoardT, ai : Mark, human : Mark]
  /\ arg.ai # arg.human
  /\ ret = NoCall

NextFn ==
  \/ CallCalculateWinner
  \/ CallComputeAIMove

SpecFn == InitFn /\ [][NextFn]_vars

\* ------------------------------------------------------------ vocabulary of the claims

\* The lines of LINES (by position) whose three cells all hold mark m.
LinesOf(b, m) == {k \in 1 .. Len(LINES) : \A j \in 1 .. 3 : b[LINES[k][j]] = m}

\* The lines completely filled with one same mark.
CompletedLines(b) == LinesOf(b, "X") \cup LinesOf(b, "O")

EmptyCells(b) == {i \in Index : b[i] = null}

\* No completed line and at least one empty cell.
InProgress(b) == CompletedLines(b) = {} /\ EmptyCells(b) # {}

\* The empty cells in which mark m would complete a line.
WinCells(b, m) == {i \in EmptyCells(b) : LinesOf(place(b, i, m), m) # {}}

\* Every value computeAIMove can return on the drawn input.
Returnable == {computeAIMove(arg.board, arg.ai, arg.human, r) : r \in Rand}

CalledWinner == ret.op = "calculateWinner"
CalledMove   == ret.op = "computeAIMove"

\* ------------------------------------------------------------ C1

\* C1: on a board with exactly one completed line, calculateWinner returns
\* the mark that fills the line as winner and the line's three indices as line.
C1_SingleLineWin ==
  (CalledWinner /\ Cardinality(CompletedLines(arg.board)) = 1) =>
    \A k \in CompletedLines(arg.board) :
      /\ ret.val.winner = arg.board[LINES[k][1]]
      /\ ret.val.winner \in Mark
      /\ ret.val.line = LINES[k]

\* A board whose single completed line is the last one inspected.
C1_Witness ==
  /\ CalledWinner
  /\ CompletedLines(arg.board) = {8}
  /\ ret.val = [winner |-> "O", line |-> <<2, 4, 6>>]

\* ------------------------------------------------------------ C2

\* C2: on a board with no completed line, calculateWinner returns draw when
\* every cell is filled and winner null when a cell is empty, both with an
\* empty line; it never returns a win.
C2_NoLineDrawOrInProgress ==
  (CalledWinner /\ CompletedLines(arg.board) = {}) =>
    /\ ret.val.line = << >>
    /\ ret.val.winner = IF EmptyCells(arg.board) = {} THEN "draw" ELSE null

\* A full board with no completed line, and the draw returned for it.
C2_Witness ==
  /\ CalledWinner
  /\ CompletedLines(arg.board) = {}
  /\ EmptyCells(arg.board) = {}
  /\ ret.val.winner = "draw"

\* ------------------------------------------------------------ C3

\* C3: on an in-progress board where some empty cell completes a line for the
\* advisor, computeAIMove returns such a cell, whatever the opponent threatens.
C3_WinPriority ==
  (CalledMove /\ InProgress(arg.board) /\ WinCells(arg.board, arg.ai) # {}) =>
    ret.val \in WinCells(arg.board, arg.ai)

\* The advisor can win and the opponent could be blocked in another cell.
C3_Witness ==
  /\ CalledMove
  /\ InProgress(arg.board)
  /\ WinCells(arg.board, arg.ai) # {}
  /\ WinCells(arg.board, arg.human) # {}
  /\ WinCells(arg.board, arg.ai) \cap WinCells(arg.board, arg.human) = {}
  /\ ret.val \in WinCells(arg.board, arg.ai)

\* ------------------------------------------------------------ C4

\* [X, X, empty, empty, O, empty, empty, empty, empty]
BlockScenario ==
  [i \in Index |-> IF i \in {0, 1} THEN "X" ELSE IF i = 4 THEN "O" ELSE null]

\* C4: on an in-progress board where the advisor has no winning cell and the
\* opponent has one, computeAIMove returns an empty cell in which the opponent
\* would have completed a line; on BlockScenario with advisor O it returns 2.
C4_Block ==
  /\ (CalledMove /\ InProgress(arg.board)
        /\ WinCells(arg.board, arg.ai) = {}
        /\ WinCells(arg.board, arg.human) # {}) =>
       ret.val \in WinCells(arg.board, arg.human)
  /\ (CalledMove /\ arg = [board |-> BlockScenario, ai |-> "O", human |-> "X"]) =>
       ret.val = 2

\* The scenario, called with the last outcome of the random source.
C4_Witness ==
  /\ CalledMove
  /\ arg = [board |-> BlockScenario, ai |-> "O", human |-> "X"]
  /\ WinCells(arg.board, "O") = {}
  /\ WinCells(arg.board, "X") = {2}
  /\ ret.rnd = RandRes - 1
  /\ ret.val = 2

\* ------------------------------------------------------------ C5

\* Neither mark completes a line with one placement.
NoImmediateWin(b) == WinCells(b, "X") = {} /\ WinCells(b, "O") = {}

\* C5: on an in-progress board where neither mark can complete a line with one
\* placement and cell 4 is empty, computeAIMove returns 4 for every outcome of
\* the random source; so it does on the empty board.
C5_Center ==
  (CalledMove /\ InProgress(arg.board) /\ NoImmediateWin(arg.board)
     /\ arg.board[4] = null) =>
    /\ ret.val = 4
    /\ Returnable = {4}

\* The empty board, advisor O, and the last outcome of the random source.
C5_Witness ==
  /\ CalledMove
  /\ arg = [board |-> initialBoard, ai |-> "O", human |-> "X"]
  /\ ret.rnd = RandRes - 1
  /\ ret.val = 4

\* ------------------------------------------------------------ C6

EmptyCorners(b) == {0, 2, 6, 8} \cap EmptyCells(b)
EmptySides(b)   == {1, 3, 5, 7} \cap EmptyCells(b)

\* C6: on an in-progress board where neither mark can complete a line with one
\* placement and cell 4 is occupied, the cells computeAIMove can return over
\* the outcomes of the random source are exactly the empty corners when there
\* is one, and exactly the empty sides otherwise.
C6_CornerBeforeSide ==
  (CalledMove /\ InProgress(arg.board) /\ NoImmediateWin(arg.board)
     /\ arg.board[4] # null) =>
    LET allowed == IF EmptyCorners(arg.board) # {}
                     THEN EmptyCorners(arg.board)
                     ELSE EmptySides(arg.board)
    IN  /\ ret.val \in allowed
        /\ Returnable = allowed

\* Corners and sides are both empty and a corner other than the first empty
\* one is returned.
C6_Witness ==
  /\ CalledMove
  /\ InProgress(arg.board)
  /\ NoImmediateWin(arg.board)
  /\ arg.board[4] # null
  /\ EmptySides(arg.board) # {}
  /\ Cardinality(EmptyCorners(arg.board)) = 3
  /\ \E c \in EmptyCorners(arg.board) : c < ret.val
  /\ ret.val \in EmptyCorners(arg.board)

\* No corner is empty and a side is returned.
C6_SideCase ==
  /\ CalledMove
  /\ InProgress(arg.board)
  /\ NoImmediateWin(arg.board)
  /\ arg.board[4] # null
  /\ EmptyCorners(arg.board) = {}
  /\ Cardinality(EmptySides(arg.board)) >= 2
  /\ ret.val \in EmptySides(arg.board)

\* ------------------------------------------------------------ C7

\* [X, O, X, O, X, O, empty, empty, empty]
MixScenario ==
  [i \in Index |-> IF i \in {0, 2, 4} THEN "X"
                   ELSE IF i \in {1, 3, 5} THEN "O" ELSE null]

CalledOnMix ==
  CalledMove /\ arg = [board |-> MixScenario, ai |-> "O", human |-> "X"]

\* C7 as stated: on MixScenario with advisor O no one can win in one move and
\* the cell returned is corner 6 or 8, never side 7.
C7_AsStated ==
  CalledOnMix =>
    /\ NoImmediateWin(arg.board)
    /\ ret.val \in {6, 8}

\* C7 as amended: on MixScenario with advisor O, O has no winning cell, X has
\* the two winning cells 6 and 8, and computeAIMove returns 6, the first
\* blocking cell, for every outcome of the random source.
C7_MixScenarioBlocks ==
  CalledOnMix =>
    /\ WinCells(arg.board, "O") = {}
    /\ WinCells(arg.board, "X") = {6, 8}
    /\ ret.val = 6
    /\ Returnable = {6}

\* The scenario, called with the last outcome of the random source.
C7_Witness ==
  /\ CalledOnMix
  /\ ret.rnd = RandRes - 1
  /\ ret.val = 6

\* ------------------------------------------------------------ C8

\* C8: computeAIMove returns "no move" exactly on a board with no empty cell,
\* and else the index of a cell that is empty in the board; the fallback
\* return never yields a cell.
C8_NoMoveIffFull ==
  CalledMove =>
    /\ (ret.val = NoMove) <=> (EmptyCells(arg.board) = {})
    /\ EmptyCells(arg.board) # {} => ret.val \in EmptyCells(arg.board)
    /\ aiDecision(arg.board, arg.ai, arg.human, ret.rnd).rule # "fallback"

\* A full board with no winner, for which no move is returned.
C8_Witness ==
  /\ CalledMove
  /\ EmptyCells(arg.board) = {}
  /\ CompletedLines(arg.board) = {}
  /\ ret.val = NoMove

\* ------------------------------------------------------------ C9

\* C9 as stated: at most one line is completed on a reachable board.
C9_AsStated == Cardinality(CompletedLines(board)) <= 1

\* The cells common to all the lines of ks.
CommonCells(ks) == {i \in Index : \A k \in ks : \E j \in 1 .. 3 : LINES[k][j] = i}

\* C9 as amended: on a reachable board at most two lines are completed, all
\* by one same mark and through one common cell; in player-vs-computer mode
\* at most one is.
C9_CompletedLinesShareACell ==
  /\ Cardinality(CompletedLines(board)) <= 2
  /\ LinesOf(board, "X") = {} \/ LinesOf(board, "O") = {}
  /\ CompletedLines(board) # {} => CommonCells(CompletedLines(board)) # {}
  /\ mode = "pvc" => Cardinality(CompletedLines(board)) <= 1

\* One move has completed two lines.
C9_Witness ==
  /\ mode = "pvp"
  /\ Cardinality(CompletedLines(board)) = 2
  /\ calculateWinner(board).winner = "X"

\* ------------------------------------------------------------ C10

\* The marks on the board.
Filled(b) == Index \ EmptyCells(b)

\* A step of New Round, Reset Scores or the mode switch.
ResetStep == newMatch \/ resetScores \/ ClickMode

\* The cells whose content a step changes.
Changed == {i \in Index : board'[i] # board[i]}

\* C10: the board always has exactly the 9 cells 0 .. 8, and every step that
\* is no reset keeps every non-empty cell and changes at most one cell, from
\* empty to X or O.
C10_WriteOnce ==
  /\ [](board \in BoardT)
  /\ [][ResetStep \/ (/\ \A i \in Filled(board) : board'[i] = board[i]
                      /\ Cardinality(Changed) <= 1
                      /\ \A i \in Changed : board'[i] \in Mark)]_vars

\* The advisor's timer callback has placed an O next to the human's marks.
C10_Witness ==
  /\ mode = "pvc"
  /\ xIsNext
  /\ ~aiThinking
  /\ Cardinality({i \in Index : board[i] = "O"}) = 2
  /\ Cardinality({i \in Index : board[i] = "X"}) = 2

\* ------------------------------------------------------------ C11

\* The outcome of a round on board b: the mark of a completed line, "draw"
\* on a full board without one, null while the round goes on.
Outcome(b) ==
  IF LinesOf(b, "X") # {} THEN "X"
  ELSE IF LinesOf(b, "O") # {} THEN "O"
  ELSE IF EmptyCells(b) = {} THEN "draw"
  ELSE null

NoScores == [x |-> 0, o |-> 0, draws |-> 0]

\* The scoreboard sc with the counter of outcome w incremented by 1.
Scored(sc, w) ==
  [x     |-> sc.x + (IF w = "X" THEN 1 ELSE 0),
   o     |-> sc.o + (IF w = "O" THEN 1 ELSE 0),
   draws |-> sc.draws + (IF w = "draw" THEN 1 ELSE 0)]

\* The step takes a round from undecided to a win or a draw.
RoundEnds == Outcome(board) = null /\ Outcome(board') # null

\* C11: a step that ends a round starts exactly one scoring callback, for the
\* round's outcome, and leaves the counters alone; a scoring callback leaves
\* the pending ones in order and adds exactly 1 to exactly the counter of its
\* outcome; every other step either keeps the counters and the pending
\* callbacks or is Reset Scores and sets the three counters to 0.  So every
\* ended round is counted once, and no counter changes in another way.
C11_ScoredOncePerRound ==
  [][\/ /\ RoundEnds
         /\ scoreTimers' = Append(scoreTimers, Outcome(board'))
         /\ scores' = scores
      \/ /\ ~RoundEnds
         /\ scoreTimers' = scoreTimers
         /\ scores' = scores \/ (resetScores /\ scores' = NoScores)
      \/ /\ ~RoundEnds
         /\ board' = board
         /\ scoreTimers # << >>
         /\ scoreTimers' = Tail(scoreTimers)
         /\ scores' = Scored(scores, Head(scoreTimers))]_vars

\* A won round and a drawn round have both been counted.
C11_Witness ==
  /\ scores = [x |-> 1, o |-> 0, draws |-> 1]
  /\ scoreTimers = << >>

\* ------------------------------------------------------------ C12

\* Player-vs-computer mode, the human has moved and the round goes on.
AdvisorTurn == mode = "pvc" /\ ~xIsNext /\ InProgress(board)

\* C12: in player-vs-computer mode, while the round goes on and O is to move,
\* an advisor decision is pending and no step is a square click; the only
\* steps that change the board then are a reset and the advisor's callback,
\* which places one O and gives the turn back; and every square click of
\* that mode places an X.
C12_HumanWaitsForAdvisor ==
  /\ [](AdvisorTurn => (aiTimer.pending /\ aiThinking))
  /\ [][AdvisorTurn => ~ClickSquare]_vars
  /\ [][(AdvisorTurn /\ board' # board) =>
         \/ ResetStep
         \/ /\ AITimerFire
            /\ Cardinality(Changed) = 1
            /\ \A i \in Changed : board[i] = null /\ board'[i] = "O"
            /\ xIsNext']_vars
  /\ [][(mode = "pvc" /\ ClickSquare) =>
         (Cardinality(Changed) = 1 /\ \A i \in Changed : board'[i] = "X")]_vars

\* The human's third X is on the board and the advisor's answer is pending.
C12_Witness ==
  /\ AdvisorTurn
  /\ aiTimer.pending
  /\ Cardinality({i \in Index : board[i] = "X"}) = 3
  /\ Cardinality({i \in Index : board[i] = "O"}) = 2

\* ------------------------------------------------------------ C13

\* C13: computeAIMove is called only by the callback of the pending AI timer,
\* on the board the callback closes over.  Whenever that timer is pending the
\* mode is player-vs-computer, O is to move, the closed-over board is the
\* current board, it has no completed line and an empty cell, and for every
\* outcome of the random source the advisor returns one of its empty cells,
\* never "no move".
C13_AdvisorCalledInProgress ==
  aiTimer.pending =>
    /\ mode = "pvc"
    /\ ~xIsNext
    /\ aiTimer.board = board
    /\ InProgress(aiTimer.board)
    /\ \A rnd \in Rand :
         /\ computeAIMove(aiTimer.board, "O", "X", rnd) # NoMove
         /\ computeAIMove(aiTimer.board, "O", "X", rnd) \in EmptyCells(board)

\* The advisor is about to be called on a board with two empty cells left.
C13_Witness ==
  /\ aiTimer.pending
  /\ mode = "pvc"
  /\ InProgress(aiTimer.board)
  /\ Cardinality(EmptyCells(aiTimer.board)) = 2

\* ------------------------------------------------------------ C14

\* X threatens two cells at once and O has no winning cell of its own.
Fork(b) == Cardinality(WinCells(b, "X")) >= 2 /\ WinCells(b, "O") = {}

\* C14: whenever the advisor's callback runs on a board with a fork of X, it
\* places its O on exactly one of the threatened cells; every other threat
\* stays, the round goes on and X is to move, so X can complete a line.  Such
\* a play is reachable (the witness): the advisor does not guard against forks.
C14_ForkBlockedOnce ==
  [][(AITimerFire /\ Fork(board)) =>
       \E c \in WinCells(board, "X") :
         /\ board' = place(board, c, "O")
         /\ WinCells(board', "X") = WinCells(board, "X") \ {c}
         /\ WinCells(board', "X") # {}
         /\ Outcome(board') = null
         /\ xIsNext']_vars

\* X has won against the advisor: X holds a completed line through a cell i,
\* O holds a cell j, and with both cells empty X threatened i and j while O
\* threatened nothing (the advisor blocked j, X completed its line at i).
C14_Witness ==
  /\ mode = "pvc"
  /\ Outcome(board) = "X"
  /\ aiTimer = NoTimer
  /\ \E i, j \in Index :
       /\ board[i] = "X"
       /\ board[j] = "O"
       /\ LET b0 == [board EXCEPT ![i] = null, ![j] = null]
          IN  /\ InProgress(b0)
              /\ WinCells(b0, "X") = {i, j}
              /\ WinCells(b0, "O") = {}

\* ------------------------------------------------------------ C15

\* The least element of a non-empty set of cell indices.
Lowest(S) == CHOOSE i \in S : \A j \in S : i <= j

\* The cell steps 1 and 2 must return: the lowest winning cell of the advisor,
\* or without one the lowest winning cell of the opponent.
TieBreak(b, ai, human) ==
  IF WinCells(b, ai) # {} THEN Lowest(WinCells(b, ai))
  ELSE Lowest(WinCells(b, human))

\* C15: on an in-progress board where the advisor has a winning cell,
\* computeAIMove returns the lowest-index one; where it has none and the
\* opponent has a winning cell, the lowest-index one of the opponent; in both
\* cases the result is the same for every outcome of the random source.
C15_LowestIndexFirst ==
  (CalledMove /\ InProgress(arg.board)
     /\ WinCells(arg.board, arg.ai) \cup WinCells(arg.board, arg.human) # {}) =>
    /\ ret.val = TieBreak(arg.board, arg.ai, arg.human)
    /\ Returnable = {ret.val}

\* Several winning cells for the advisor, the lowest returned on the last
\* outcome of the random source.
C15_Witness ==
  /\ CalledMove
  /\ InProgress(arg.board)
  /\ Cardinality(WinCells(arg.board, arg.ai)) >= 2
  /\ ret.rnd = RandRes - 1
  /\ ret.val = Lowest(WinCells(arg.board, arg.ai))

\* No winning cell for the advisor, several for the opponent, the lowest
\* returned.
C15_BlockCase ==
  /\ CalledMove
  /\ InProgress(arg.board)
  /\ WinCells(arg.board, arg.ai) = {}
  /\ Cardinality(WinCells(arg.board, arg.human)) >= 2
  /\ ret.val = Lowest(WinCells(arg.board, arg.human))

\* ------------------------------------------------------------ C16

\* C16: on a board with a completed line, more than one included,
\* calculateWinner returns the first completed line in the order of LINES
\* (rows, columns, diagonals) with the mark that fills it; the three cells of
\* the returned line hold the returned winner.
C16_FirstLineInOrder ==
  (CalledWinner /\ CompletedLines(arg.board) # {}) =>
    LET k == CHOOSE h \in CompletedLines(arg.board) :
               \A g \in CompletedLines(arg.board) : h <= g
    IN  /\ ret.val.line = LINES[k]
        /\ ret.val.winner = arg.board[LINES[k][1]]
        /\ ret.val.winner \in Mark
        /\ \A j \in 1 .. 3 : arg.board[ret.val.line[j]] = ret.val.winner

\* A row of O and a later row of X are both complete; the first is returned.
C16_Witness ==
  /\ CalledWinner
  /\ CompletedLines(arg.board) = {2, 3}
  /\ LinesOf(arg.board, "X") = {3}
  /\ ret.val = [winner |-> "O", line |-> <<3, 4, 5>>]

\* ------------------------------------------------------------ C17

\* The number of cells of b that hold mark m.
Count(b, m) == Cardinality({i \in Index : b[i] = m})

\* C17: in every reachable state the board holds as many X as O or one X
\* more, xIsNext is true exactly when the two counts are equal, and X and O
\* do not both have a completed line.
C17_TurnInvariant ==
  /\ Count(board, "X") - Count(board, "O") \in {0, 1}
  /\ xIsNext <=> (Count(board, "X") = Count(board, "O"))
  /\ LinesOf(board, "X") = {} \/ LinesOf(board, "O") = {}

\* The advisor has just completed a line for O: the counts are equal and X
\* would be next.
C17_Witness ==
  /\ mode = "pvc"
  /\ LinesOf(board, "O") # {}
  /\ Count(board, "X") = 3
  /\ Count(board, "O") = 3
  /\ xIsNext

\* ------------------------------------------------------------ C18

\* C18: a Reset Scores step leaves the three counters at 0 and leaves no
\* scoring callback pending.  A callback still pending after the step belongs
\* to a round that ended before it (the step empties the board and ends no
\* round), and by C11 every pending callback adds 1 to a counter when it
\* runs: a win or draw reached before the reset would be added after it.
C18_ResetScoresDropsEarlierRounds ==
  [][resetScores => (scores' = NoScores /\ scoreTimers' = << >>)]_vars

\* ------------------------------------------------------------ C19

\* C19: every step of New Round, Reset Scores or the mode switch ends with the
\* empty board, X to move, aiThinking false and no AI timer pending, whatever
\* was pending before; no AI timer is ever pending on the empty board; and
\* the AI callback only ever runs on the current board, one X ahead of O:
\* after a reset no O is placed before the human's next X, and no move
\* computed on an earlier round's board is applied.
C19_ResetCancelsAdvisor ==
  /\ [][ResetStep => /\ board' = initialBoard
                     /\ xIsNext'
                     /\ ~aiThinking'
                     /\ ~aiTimer'.pending]_vars
  /\ [](board = initialBoard => (~aiTimer.pending /\ ~aiThinking /\ xIsNext))
  /\ [][AITimerFire => /\ aiTimer.board = board
                       /\ Count(board, "X") = Count(board, "O") + 1
                       /\ Count(board', "O") = Count(board, "O") + 1]_vars

\* An advisor timer is pending in the second round of a session (the first
\* round's scoring callback is still pending): a reset at this point has a
\* timer to cancel.
C19_Witness ==
  /\ aiTimer.pending
  /\ aiThinking
  /\ Count(board, "X") = 2
  /\ Len(scoreTimers) = 1

\* ------------------------------------------------------------ C20

\* C20: aiThinking is true only while the AI timer is pending; the callback
\* places exactly one O, gives the turn to X and clears aiThinking; and, the
\* pending timer firing unless it is cleared, whenever O is to move on an
\* in-progress board in player-vs-computer mode, eventually X is to move
\* with aiThinking false (the advisor has moved or the board was reset).
C20_AdvisorAnswers ==
  /\ [](aiThinking => aiTimer.pending)
  /\ [][AITimerFire => /\ Count(board', "O") = Count(board, "O") + 1
                       /\ Count(board', "X") = Count(board, "X")
                       /\ xIsNext'
                       /\ ~aiThinking']_vars
  /\ (AdvisorTurn ~> (xIsNext /\ ~aiThinking))

\* The advisor has answered the human's first move and X is to move again.
C20_Witness ==
  /\ mode = "pvc"
  /\ xIsNext
  /\ ~aiThinking
  /\ ~aiTimer.pending
  /\ Count(board, "X") = 1
  /\ Count(board, "O") = 1

=============================================================================
